---- MODULE Spec2Model ----
(***************************************************************************)
(* Model of the Windows spool driver of escpos-rs                          *)
(* (src/io/driver/windows_driver.rs): WindowsDriver::open, write, read,    *)
(* flush and the staged handshake of write_all against the print spooler.  *)
(* Every spooler call is one step; its outcome is chosen by the OS.        *)
(*                                                                         *)
(* Byte sequences are kept run-length encoded: an item is one byte, or a   *)
(* run of 2^32 equal bytes.  A length is therefore a pair hi * 2^32 + lo,  *)
(* which keeps the 32-bit width of the "as u32" casts exact (usize is 64   *)
(* bits on x86_64-pc-windows-msvc) without enumerating 2^32 bytes.         *)
(***************************************************************************)
EXTENDS Integers, Sequences, FiniteSets, TLC

\* ---------------------------------------------------------------- bounds
MaxByte == 1        \* byte values are 0..MaxByte
MaxWrites == 2      \* number of write calls explored
MaxFlush == 2       \* number of flush calls explored
MaxReadBuf == 1     \* longest buffer handed to read

Bytes == 0..MaxByte

\* one byte b
One(b) == [b |-> b, big |-> FALSE]

\* a run of 2^32 bytes b
Run(b) == [b |-> b, big |-> TRUE]

Items == {One(b) : b \in Bytes} \cup {Run(0)}

\* the identities WindowsPrinter::get_raw_name may yield
Printers == {"POS-58"}

\* handles are opaque and never inspected: one non-null value stands for all
Handles == {1}

\* the slices handed to write: empty, one item, or two different bytes
Slices == {<<>>} \cup {<<x>> : x \in Items} \cup {<<One(0), One(MaxByte)>>}

VARIABLES
    printer_name,       \* WindowsDriver.printer_name
    buffer,             \* WindowsDriver.buffer
    pc,                 \* position of the single thread of control
    error,              \* write_all: let mut error
    printer_handle,     \* write_all: let mut printer_handle
    is_printer_open,    \* write_all: let mut is_printer_open
    is_doc_started,     \* write_all: let mut is_doc_started
    is_page_started,    \* write_all: let mut is_page_started
    calls,              \* spooler calls made by the latest write_all, in order
    stderr,             \* lines printed by the latest write_all
    last,               \* the operation that returned last and its result
    history,            \* the slices passed to write since construction
    nflush,             \* number of flush calls started
    sent                \* the latest WritePrinter payload, and the writes made before it

vars == <<printer_name, buffer, pc, error, printer_handle, is_printer_open,
          is_doc_started, is_page_started, calls, stderr, last, history, nflush, sent>>

\* no payload has been handed to WritePrinter yet
NothingSent == [valid |-> FALSE, data |-> <<>>, nwrites |-> 0]

\* ----------------------------------------------------------------- values
NoError == "None"

HANDLE0 == 0

ErrOpen == "Failed to open printer"

ErrStartDoc == "Failed to start doc"

ErrStartPage == "Failed to start page"

ErrWrite == "Failed to write to printer"

ErrWriteAll == "Failed to write all bytes to printer"

WarnEndPage == "Warning: Failed to end page"

WarnEndDoc == "Warning: Failed to end document"

WarnClose == "Warning: Failed to close printer"

DocName == "Raw Document"

DocDatatype == "Raw"

\* a spooler call as the OS sees it: function, arguments, outcome
Call(fn, h, ok) ==
    [fn |-> fn, handle |-> h, ok |-> ok, name |-> "", doc |-> "", datatype |-> "",
     data |-> <<>>, cb |-> 0, written |-> 0]

\* a returned Result: Ok(val) or Err(PrinterError::Io(err))
Returned(op, ok, val, err, data, size) ==
    [op |-> op, ok |-> ok, val |-> val, err |-> err, data |-> data, size |-> size]

\* Vec::len / slice len, as hi * 2^32 + lo with lo < 2^32
len(buf) ==
    [hi |-> Cardinality({i \in DOMAIN buf : buf[i].big}),
     lo |-> Cardinality({i \in DOMAIN buf : ~buf[i].big})]

\* "n as u32": n mod 2^32
as_u32(n) == n.lo

\* the n bytes found at buf.as_ptr(), n <= buf.len()
RECURSIVE bytes_at(_, _)
bytes_at(buf, n) ==
    IF n = 0 \/ buf = <<>> THEN <<>>
    ELSE IF Head(buf).big THEN [i \in 1..n |-> One(Head(buf).b)]
    ELSE <<Head(buf)>> \o bytes_at(Tail(buf), n - 1)

\* ------------------------------------------------------------ construction
\* WindowsDriver::open: the identity of the printer and a new empty Vec
open(printer) == [printer_name |-> printer, buffer |-> <<>>]

Init ==
    \E p \in Printers :
        /\ printer_name = open(p).printer_name
        /\ buffer = open(p).buffer
        /\ pc = "idle"
        /\ error = NoError
        /\ printer_handle = HANDLE0
        /\ is_printer_open = FALSE
        /\ is_doc_started = FALSE
        /\ is_page_started = FALSE
        /\ calls = <<>>
        /\ stderr = <<>>
        /\ last = Returned("open", TRUE, 0, NoError, <<>>, 0)
        /\ history = <<>>
        /\ nflush = 0
        /\ sent = NothingSent

flushLocals == <<error, printer_handle, is_printer_open, is_doc_started, is_page_started>>

\* ------------------------------------------------------------------ write
\* buffer.extend_from_slice(data)
extend_from_slice(buf, data) == buf \o data

\* as write, but the slice is also sent to the device at once
write_through(data) ==
    /\ pc = "idle"
    /\ Len(history) < MaxWrites
    /\ buffer' = extend_from_slice(buffer, data)
    /\ calls' = Append(calls, [Call("WritePrinter", printer_handle, TRUE) EXCEPT !.data = data])
    /\ last' = Returned("write", TRUE, 0, NoError, data, 0)
    /\ history' = Append(history, data)
    /\ UNCHANGED <<printer_name, pc, flushLocals, stderr, nflush, sent>>

write(data) ==
    /\ pc = "idle"
    /\ Len(history) < MaxWrites
    /\ buffer' = extend_from_slice(buffer, data)
    /\ last' = Returned("write", TRUE, 0, NoError, data, 0)
    /\ history' = Append(history, data)
    /\ UNCHANGED <<printer_name, pc, flushLocals, calls, stderr, nflush, sent>>

\* ------------------------------------------------------------------- read
\* as read, but it hands out (and consumes) up to size buffered items
read_drains(size) ==
    /\ pc = "idle"
    /\ LET n == IF size < Len(buffer) THEN size ELSE Len(buffer)
       IN  /\ last' = Returned("read", TRUE, n, NoError, <<>>, size)
           /\ buffer' = SubSeq(buffer, n + 1, Len(buffer))
    /\ UNCHANGED <<printer_name, pc, flushLocals, calls, stderr, history, nflush, sent>>

read(size) ==
    /\ pc = "idle"
    /\ last' = Returned("read", TRUE, 0, NoError, <<>>, size)
    /\ UNCHANGED <<printer_name, buffer, pc, flushLocals, calls, stderr, history, nflush, sent>>

\* ------------------------------------------------------------------ flush
\* as flush, but the three flags outlive the call (kept with the driver)
flush_keepsFlags ==
    /\ pc = "idle"
    /\ nflush < MaxFlush
    /\ pc' = "S1"
    /\ error' = NoError
    /\ printer_handle' = HANDLE0
    /\ calls' = <<>>
    /\ stderr' = <<>>
    /\ nflush' = nflush + 1
    /\ UNCHANGED <<printer_name, buffer, is_printer_open, is_doc_started, is_page_started,
                   last, history, sent>>

\* as flush, but with nothing buffered it returns Ok(()) at once
flush_skipsEmpty ==
    /\ pc = "idle"
    /\ nflush < MaxFlush
    /\ error' = NoError
    /\ printer_handle' = HANDLE0
    /\ is_printer_open' = FALSE
    /\ is_doc_started' = FALSE
    /\ is_page_started' = FALSE
    /\ calls' = <<>>
    /\ stderr' = <<>>
    /\ nflush' = nflush + 1
    /\ IF buffer = <<>>
       THEN /\ pc' = "idle"
            /\ last' = Returned("flush", TRUE, 0, NoError, <<>>, 0)
       ELSE /\ pc' = "S1"
            /\ UNCHANGED last
    /\ UNCHANGED <<printer_name, buffer, history, sent>>

\* flush calls write_all, which starts with fresh locals
flush ==
    /\ pc = "idle"
    /\ nflush < MaxFlush
    /\ pc' = "S1"
    /\ error' = NoError
    /\ printer_handle' = HANDLE0
    /\ is_printer_open' = FALSE
    /\ is_doc_started' = FALSE
    /\ is_page_started' = FALSE
    /\ calls' = <<>>
    /\ stderr' = <<>>
    /\ nflush' = nflush + 1
    /\ UNCHANGED <<printer_name, buffer, last, history, sent>>

\* error = Some(PrinterError::Io(msg)); eprintln!("Error: {:?}", error)
fail(msg) ==
    /\ error' = msg
    /\ stderr' = Append(stderr, msg)

\* as write_all_OpenPrinterW, but is_printer_open is set before the result is looked at
write_all_OpenPrinterW_flagFirst ==
    /\ pc = "S1"
    /\ \E ok \in BOOLEAN, h \in Handles :
        LET got == IF ok THEN h ELSE HANDLE0
        IN  /\ calls' = Append(calls, [Call("OpenPrinterW", got, ok) EXCEPT !.name = printer_name])
            /\ is_printer_open' = TRUE
            /\ printer_handle' = got
            /\ IF ~ok
               THEN /\ fail(ErrOpen)
                    /\ pc' = "C1"
               ELSE /\ pc' = "S2"
                    /\ UNCHANGED <<error, stderr>>
    /\ UNCHANGED <<printer_name, buffer, is_doc_started, is_page_started, last, history, nflush, sent>>

\* as write_all_OpenPrinterW, but a failed open is tried again
write_all_OpenPrinterW_retries ==
    /\ pc = "S1"
    /\ \E ok \in BOOLEAN, h \in Handles :
        LET got == IF ok THEN h ELSE HANDLE0
        IN  /\ calls' = Append(calls, [Call("OpenPrinterW", got, ok) EXCEPT !.name = printer_name])
            /\ IF ~ok
               THEN /\ fail(ErrOpen)
                    /\ pc' = "S1"
                    /\ UNCHANGED <<printer_handle, is_printer_open>>
               ELSE /\ is_printer_open' = TRUE
                    /\ printer_handle' = got
                    /\ pc' = "S2"
                    /\ UNCHANGED <<error, stderr>>
    /\ UNCHANGED <<printer_name, buffer, is_doc_started, is_page_started, last, history, nflush, sent>>

\* as write_all_OpenPrinterW, but it opens the printer of the null name
write_all_OpenPrinterW_nullName ==
    /\ pc = "S1"
    /\ \E ok \in BOOLEAN, h \in Handles :
        LET got == IF ok THEN h ELSE HANDLE0
        IN  /\ calls' = Append(calls, Call("OpenPrinterW", got, ok))
            /\ IF ~ok
               THEN /\ fail(ErrOpen)
                    /\ pc' = "C1"
                    /\ UNCHANGED <<printer_handle, is_printer_open>>
               ELSE /\ is_printer_open' = TRUE
                    /\ printer_handle' = got
                    /\ pc' = "S2"
                    /\ UNCHANGED <<error, stderr>>
    /\ UNCHANGED <<printer_name, buffer, is_doc_started, is_page_started, last, history, nflush, sent>>

\* S1: OpenPrinterW(self.printer_name, &mut printer_handle, None)
write_all_OpenPrinterW ==
    /\ pc = "S1"
    /\ \E ok \in BOOLEAN, h \in Handles :
        LET got == IF ok THEN h ELSE HANDLE0
        IN  /\ calls' = Append(calls, [Call("OpenPrinterW", got, ok) EXCEPT !.name = printer_name])
            /\ IF ~ok
               THEN /\ fail(ErrOpen)
                    /\ pc' = "C1"
                    /\ UNCHANGED <<printer_handle, is_printer_open>>
               ELSE /\ is_printer_open' = TRUE
                    /\ printer_handle' = got
                    /\ pc' = "S2"
                    /\ UNCHANGED <<error, stderr>>
    /\ UNCHANGED <<printer_name, buffer, is_doc_started, is_page_started, last, history, nflush, sent>>

\* as write_all_StartDocPrinterW, but is_doc_started is set before the result is looked at
write_all_StartDocPrinterW_flagFirst ==
    /\ pc = "S2"
    /\ \E ok \in BOOLEAN :
        /\ calls' = Append(calls, [Call("StartDocPrinterW", printer_handle, ok)
                                      EXCEPT !.doc = DocName, !.datatype = DocDatatype])
        /\ is_doc_started' = TRUE
        /\ IF ~ok
           THEN /\ fail(ErrStartDoc)
                /\ pc' = "C1"
           ELSE /\ pc' = "S3"
                /\ UNCHANGED <<error, stderr>>
    /\ UNCHANGED <<printer_name, buffer, printer_handle, is_printer_open, is_page_started,
                   last, history, nflush, sent>>

\* S2: StartDocPrinterW(printer_handle, 1, &document_info); 0 is failure
write_all_StartDocPrinterW ==
    /\ pc = "S2"
    /\ \E ok \in BOOLEAN :
        /\ calls' = Append(calls, [Call("StartDocPrinterW", printer_handle, ok)
                                      EXCEPT !.doc = DocName, !.datatype = DocDatatype])
        /\ IF ~ok
           THEN /\ fail(ErrStartDoc)
                /\ pc' = "C1"
                /\ UNCHANGED is_doc_started
           ELSE /\ is_doc_started' = TRUE
                /\ pc' = "S3"
                /\ UNCHANGED <<error, stderr>>
    /\ UNCHANGED <<printer_name, buffer, printer_handle, is_printer_open, is_page_started,
                   last, history, nflush, sent>>

\* as write_all_StartPagePrinter, but is_page_started is set before the result is looked at
write_all_StartPagePrinter_flagFirst ==
    /\ pc = "S3"
    /\ \E ok \in BOOLEAN :
        /\ calls' = Append(calls, Call("StartPagePrinter", printer_handle, ok))
        /\ is_page_started' = TRUE
        /\ IF ~ok
           THEN /\ fail(ErrStartPage)
                /\ pc' = "C1"
           ELSE /\ pc' = "S4"
                /\ UNCHANGED <<error, stderr>>
    /\ UNCHANGED <<printer_name, buffer, printer_handle, is_printer_open, is_doc_started,
                   last, history, nflush, sent>>

\* S3: StartPagePrinter(printer_handle)
write_all_StartPagePrinter ==
    /\ pc = "S3"
    /\ \E ok \in BOOLEAN :
        /\ calls' = Append(calls, Call("StartPagePrinter", printer_handle, ok))
        /\ IF ~ok
           THEN /\ fail(ErrStartPage)
                /\ pc' = "C1"
                /\ UNCHANGED is_page_started
           ELSE /\ is_page_started' = TRUE
                /\ pc' = "S4"
                /\ UNCHANGED <<error, stderr>>
    /\ UNCHANGED <<printer_name, buffer, printer_handle, is_printer_open, is_doc_started,
                   last, history, nflush, sent>>

\* the outcome of the WritePrinter call: the call failed, or it reported a
\* count other than buffer.len() as u32
write_error(ok, written, buflen) ==
    IF ~ok THEN ErrWrite
    ELSE IF written # as_u32(buflen) THEN ErrWriteAll
    ELSE NoError

\* the counts the OS may report in `written` for a request of cb bytes
WrittenCounts(cb) == 0..(cb + 1)

\* S4: WritePrinter(printer_handle, buffer.as_ptr(), buffer.len() as u32, &mut written);
\* written is read only when the call succeeded, so a failed call is taken
\* to leave it at its initial 0
write_all_WritePrinter ==
    /\ pc = "S4"
    /\ LET cb == as_u32(len(buffer))
       IN  \E ok \in BOOLEAN :
           \E w \in IF ok THEN WrittenCounts(cb) ELSE {0} :
            LET e == write_error(ok, w, len(buffer))
            IN  /\ calls' = Append(calls, [Call("WritePrinter", printer_handle, ok)
                                              EXCEPT !.data = bytes_at(buffer, cb),
                                                     !.cb = cb, !.written = w])
                /\ IF e # NoError THEN fail(e) ELSE UNCHANGED <<error, stderr>>
                /\ sent' = [valid |-> TRUE, data |-> bytes_at(buffer, cb), nwrites |-> Len(history)]
    /\ pc' = "C1"
    /\ UNCHANGED <<printer_name, buffer, printer_handle, is_printer_open, is_doc_started,
                   is_page_started, last, history, nflush>>

\* as cleanup, but a failed release is recorded as the error of the flush
cleanup_setsError(flag, fn, warning, next) ==
    /\ IF flag
       THEN \E ok \in BOOLEAN :
            /\ calls' = Append(calls, Call(fn, printer_handle, ok))
            /\ stderr' = IF ok THEN stderr ELSE Append(stderr, warning)
            /\ error' = IF ok THEN error ELSE warning
       ELSE UNCHANGED <<calls, stderr, error>>
    /\ pc' = next
    /\ UNCHANGED <<printer_name, buffer, printer_handle, is_printer_open, is_doc_started,
                   is_page_started, last, history, nflush, sent>>

\* as cleanup, but a failed release ends the cleanup block
cleanup_aborts(flag, fn, warning, next) ==
    /\ IF flag
       THEN \E ok \in BOOLEAN :
            /\ calls' = Append(calls, Call(fn, printer_handle, ok))
            /\ stderr' = IF ok THEN stderr ELSE Append(stderr, warning)
            /\ pc' = IF ok THEN next ELSE "ret"
       ELSE /\ UNCHANGED <<calls, stderr>>
            /\ pc' = next
    /\ UNCHANGED <<printer_name, buffer, flushLocals, last, history, nflush, sent>>

\* one cleanup statement: if flag { if release(printer_handle) failed { eprintln!(warning) } }
cleanup(flag, fn, warning, next) ==
    /\ IF flag
       THEN \E ok \in BOOLEAN :
            /\ calls' = Append(calls, Call(fn, printer_handle, ok))
            /\ stderr' = IF ok THEN stderr ELSE Append(stderr, warning)
       ELSE UNCHANGED <<calls, stderr>>
    /\ pc' = next
    /\ UNCHANGED <<printer_name, buffer, flushLocals, last, history, nflush, sent>>

\* as CleanupOrder, but the document is ended before the page
CleanupOrder_docFirst == <<"EndDocPrinter", "EndPagePrinter", "ClosePrinter">>

\* the statements of the cleanup block, in program order
CleanupOrder == <<"EndPagePrinter", "EndDocPrinter", "ClosePrinter">>

CleanupLabels == <<"C1", "C2", "C3", "ret">>

\* the position of control before and after the cleanup statement that calls fn
before(fn) == CleanupLabels[CHOOSE i \in DOMAIN CleanupOrder : CleanupOrder[i] = fn]

after(fn) == CleanupLabels[(CHOOSE i \in DOMAIN CleanupOrder : CleanupOrder[i] = fn) + 1]

write_all_EndPagePrinter ==
    /\ pc = before("EndPagePrinter")
    /\ cleanup(is_page_started, "EndPagePrinter", WarnEndPage, after("EndPagePrinter"))

\* as write_all_EndDocPrinter, but guarded by is_printer_open
write_all_EndDocPrinter_wrongFlag ==
    /\ pc = before("EndDocPrinter")
    /\ cleanup(is_printer_open, "EndDocPrinter", WarnEndDoc, after("EndDocPrinter"))

write_all_EndDocPrinter ==
    /\ pc = before("EndDocPrinter")
    /\ cleanup(is_doc_started, "EndDocPrinter", WarnEndDoc, after("EndDocPrinter"))

write_all_ClosePrinter ==
    /\ pc = before("ClosePrinter")
    /\ cleanup(is_printer_open, "ClosePrinter", WarnClose, after("ClosePrinter"))

\* if let Some(err) = error { Err(err) } else { Ok(()) }
write_all_result(err) ==
    IF err # NoError THEN Returned("flush", FALSE, 0, err, <<>>, 0)
    ELSE Returned("flush", TRUE, 0, NoError, <<>>, 0)

write_all_return ==
    /\ pc = "ret"
    /\ last' = write_all_result(error)
    /\ pc' = "idle"
    /\ UNCHANGED <<printer_name, buffer, flushLocals, calls, stderr, history, nflush, sent>>

write_all ==
    \/ write_all_OpenPrinterW
    \/ write_all_StartDocPrinterW
    \/ write_all_StartPagePrinter
    \/ write_all_WritePrinter
    \/ write_all_EndPagePrinter
    \/ write_all_EndDocPrinter
    \/ write_all_ClosePrinter
    \/ write_all_return

Next ==
    \/ \E data \in Slices : write(data)
    \/ \E size \in 0..MaxReadBuf : read(size)
    \/ flush
    \/ write_all

Spec == Init /\ [][Next]_vars


\* ------------------------------------------------- reading the call log
Acquire == <<"OpenPrinterW", "StartDocPrinterW", "StartPagePrinter">>

Primary == {"OpenPrinterW", "StartDocPrinterW", "StartPagePrinter", "WritePrinter"}

Release == {"EndPagePrinter", "EndDocPrinter", "ClosePrinter"}

\* the call that releases what fn acquires
ReleaseOf(fn) ==
    CASE fn = "OpenPrinterW" -> "ClosePrinter"
      [] fn = "StartDocPrinterW" -> "EndDocPrinter"
      [] fn = "StartPagePrinter" -> "EndPagePrinter"

Fns == [i \in DOMAIN calls |-> calls[i].fn]

Count(fn) == Cardinality({i \in DOMAIN calls : calls[i].fn = fn})

Succeeded(fn) == \E i \in DOMAIN calls : calls[i].fn = fn /\ calls[i].ok

Failed(fn) == \E i \in DOMAIN calls : calls[i].fn = fn /\ ~calls[i].ok

Reverse(s) == [i \in DOMAIN s |-> s[Len(s) + 1 - i]]

\* the latest flush has returned (other operations may have followed it)
FlushDone == pc = "idle" /\ nflush > 0

\* the latest operation to return is a flush
FlushReturned == pc = "idle" /\ last.op = "flush"

\* a count reported in a u32 equals the length n = hi * 2^32 + lo
CountEquals(w, n) == n.hi = 0 /\ n.lo = w

\* the slices of h one after the other
RECURSIVE Concat(_)
Concat(h) == IF h = <<>> THEN <<>> ELSE Head(h) \o Concat(Tail(h))

AllSpoolerCalls ==
    <<"OpenPrinterW", "StartDocPrinterW", "StartPagePrinter", "WritePrinter",
      "EndPagePrinter", "EndDocPrinter", "ClosePrinter">>

\* what a primary call of the log contributes as an error, from its own
\* request and outcome
StageError(c) ==
    CASE c.fn = "OpenPrinterW" -> IF c.ok THEN NoError ELSE ErrOpen
      [] c.fn = "StartDocPrinterW" -> IF c.ok THEN NoError ELSE ErrStartDoc
      [] c.fn = "StartPagePrinter" -> IF c.ok THEN NoError ELSE ErrStartPage
      [] c.fn = "WritePrinter" ->
            IF ~c.ok THEN ErrWrite ELSE IF c.written # c.cb THEN ErrWriteAll ELSE NoError
      [] OTHER -> NoError

\* the error of the first failing primary call of the log
FirstPrimaryError ==
    LET Failing(c) == StageError(c) # NoError
        failing == SelectSeq(calls, Failing)
    IN  IF failing = <<>> THEN NoError ELSE StageError(failing[1])

\* ------------------------------------------------------------------ claims

\* C1: by the time flush returns, each of ClosePrinter, EndDocPrinter and
\* EndPagePrinter has been called exactly once if the matching OpenPrinterW,
\* StartDocPrinterW, StartPagePrinter succeeded and not at all otherwise,
\* whatever the OS calls returned; at no time is a release called twice or
\* for something that was not acquired.
C1_ReleasedIffAcquired ==
    /\ \A i \in DOMAIN Acquire :
        /\ Count(ReleaseOf(Acquire[i])) <= 1
        /\ Count(ReleaseOf(Acquire[i])) = 1 => Succeeded(Acquire[i])
    /\ FlushDone =>
        \A i \in DOMAIN Acquire :
            Count(ReleaseOf(Acquire[i])) = IF Succeeded(Acquire[i]) THEN 1 ELSE 0

C1_Witness ==
    /\ FlushDone
    /\ Succeeded("OpenPrinterW")
    /\ Failed("StartDocPrinterW")
    /\ Failed("ClosePrinter")
    /\ Count("ClosePrinter") = 1
    /\ Count("EndDocPrinter") = 0

\* C2: the release calls of a flush are the releases of the successful
\* acquisitions in reverse order (EndPagePrinter, then EndDocPrinter, then
\* ClosePrinter), and no OpenPrinterW, StartDocPrinterW, StartPagePrinter
\* or WritePrinter call follows a release call.
C2_ReverseOrder ==
    LET IsRelease(f) == f \in Release
        IsAcquired(c) == c.ok /\ c.fn \in {Acquire[i] : i \in DOMAIN Acquire}
        acquired == SelectSeq(calls, IsAcquired)
        owed == Reverse([i \in DOMAIN acquired |-> ReleaseOf(acquired[i].fn)])
        released == SelectSeq(Fns, IsRelease)
    IN  /\ \A i, j \in DOMAIN calls :
            (i < j /\ calls[i].fn \in Release) => calls[j].fn \in Release
        /\ \E k \in 0..Len(owed) : released = SubSeq(owed, 1, k)
        /\ FlushDone => released = owed

C2_Witness ==
    /\ FlushDone
    /\ Fns = <<"OpenPrinterW", "StartDocPrinterW", "StartPagePrinter", "WritePrinter",
               "EndPagePrinter", "EndDocPrinter", "ClosePrinter">>
    /\ ~calls[4].ok

\* C3: when OpenPrinterW fails it is the only spooler call of the flush (no
\* StartDocPrinterW, StartPagePrinter, WritePrinter and no cleanup call) and
\* flush returns the "Failed to open printer" error.
C3_OpenFailure ==
    (calls # <<>> /\ calls[1].fn = "OpenPrinterW" /\ ~calls[1].ok) =>
        /\ Len(calls) = 1
        /\ FlushReturned => (~last.ok /\ last.err = ErrOpen)

C3_Witness ==
    /\ FlushReturned
    /\ Fns = <<"OpenPrinterW">>
    /\ ~calls[1].ok
    /\ last.err = ErrOpen

\* C4: when OpenPrinterW and StartDocPrinterW succeed and StartPagePrinter
\* fails, WritePrinter and EndPagePrinter are not called, EndDocPrinter and
\* then ClosePrinter are called, and flush returns the "Failed to start
\* page" error.
C4_StartPageFailure ==
    (Succeeded("OpenPrinterW") /\ Succeeded("StartDocPrinterW") /\ Failed("StartPagePrinter")) =>
        /\ Count("WritePrinter") = 0
        /\ Count("EndPagePrinter") = 0
        /\ FlushDone =>
            Fns = <<"OpenPrinterW", "StartDocPrinterW", "StartPagePrinter",
                    "EndDocPrinter", "ClosePrinter">>
        /\ FlushReturned => (~last.ok /\ last.err = ErrStartPage)

C4_Witness ==
    /\ FlushReturned
    /\ Failed("StartPagePrinter")
    /\ Fns = <<"OpenPrinterW", "StartDocPrinterW", "StartPagePrinter",
               "EndDocPrinter", "ClosePrinter">>
    /\ last.err = ErrStartPage

\* C5: when the three acquisitions succeed and WritePrinter succeeds but
\* reports a count different from the buffer length, flush returns a
\* write error and EndPagePrinter, EndDocPrinter, ClosePrinter are all
\* called.
C5_ShortWrite ==
    \A i \in DOMAIN calls :
        (calls[i].fn = "WritePrinter" /\ calls[i].ok
            /\ ~CountEquals(calls[i].written, len(buffer))) =>
                /\ FlushReturned => (~last.ok /\ last.err \in {ErrWrite, ErrWriteAll})
                /\ FlushDone => Fns = AllSpoolerCalls

\* C6: flush returns the error of the first failing call among OpenPrinterW,
\* StartDocPrinterW, StartPagePrinter, WritePrinter, and success when none
\* of them failed; from the start of the cleanup on, the outcomes of
\* EndPagePrinter, EndDocPrinter and ClosePrinter leave that value alone.
C6_PrimaryErrorOnly ==
    /\ pc \in {"C1", "C2", "C3", "ret"} => error = FirstPrimaryError
    /\ FlushReturned =>
        /\ last.ok = (FirstPrimaryError = NoError)
        /\ last.err = FirstPrimaryError

C6_Witness ==
    /\ FlushReturned
    /\ last.ok
    /\ Failed("EndPagePrinter")
    /\ Failed("EndDocPrinter")
    /\ Failed("ClosePrinter")

\* C7: when the four primary calls succeed and the reported count equals
\* the buffer length, flush returns success after exactly EndPagePrinter,
\* EndDocPrinter, ClosePrinter; and flush returns success only if the four
\* primary calls succeeded with a count equal to the buffer length.
C7_SuccessIffAllPrimary ==
    LET Matching ==
            \E i \in DOMAIN calls :
                /\ calls[i].fn = "WritePrinter"
                /\ calls[i].ok
                /\ CountEquals(calls[i].written, len(buffer))
        AllPrimary ==
            /\ \A i \in DOMAIN Acquire : Succeeded(Acquire[i])
            /\ Matching
    IN  FlushReturned =>
            /\ AllPrimary => (last.ok /\ Fns = AllSpoolerCalls)
            /\ last.ok => AllPrimary

\* C8: the buffer is the concatenation, in call order, of the slices passed
\* to write since construction, and the payload of every WritePrinter call
\* is exactly that concatenation.
C8_AppendLaw ==
    /\ buffer = Concat(history)
    /\ (pc # "idle" \/ FlushReturned) =>
        \A i \in DOMAIN calls :
            calls[i].fn = "WritePrinter" => calls[i].data = Concat(history)

\* C9: every read returns Ok(0), whatever the size of the buffer it is
\* given, and changes neither the spool buffer nor the printer identity nor
\* anything else of the driver, and makes no spooler call.
C9_ReadNeutral ==
    [][(pc = "idle" /\ pc' = "idle" /\ last'.op = "read") =>
            /\ last'.ok
            /\ last'.val = 0
            /\ UNCHANGED <<printer_name, buffer, calls, stderr, history, nflush, flushLocals>>]_vars

C9_Witness ==
    /\ last.op = "read"
    /\ last.size = 0
    /\ last.ok
    /\ last.val = 0
    /\ buffer # <<>>
    /\ nflush > 0

\* C10: as long as no flush has been called no spooler call has been made;
\* the driver starts with an empty buffer, every write returns success and
\* the buffer is what the writes appended, in order.
C10_NoSpoolerCallBeforeFlush ==
    /\ nflush = 0 => (calls = <<>> /\ stderr = <<>> /\ pc = "idle" /\ ~is_printer_open)
    /\ history = <<>> => buffer = <<>>
    /\ last.op = "write" => (last.ok /\ history # <<>> /\ last.data = history[Len(history)])
    /\ Len(buffer) = Len(Concat(history))
    /\ \A i \in DOMAIN buffer : buffer[i] = Concat(history)[i]

C10_Witness ==
    /\ nflush = 0
    /\ Len(history) >= 2
    /\ buffer # <<>>
    /\ last.op = "read"
    /\ calls = <<>>

\* C11: no step of a flush changes the spool buffer, so that the payload of
\* a later flush is the payload of the flush before it followed by the
\* slices written in between (the same payload when nothing was written).
C11_FlushKeepsBuffer ==
    [][/\ (pc # "idle" \/ pc' # "idle") => buffer' = buffer
       /\ (pc = "S4" /\ pc' # "S4" /\ sent.valid) =>
            sent'.data = sent.data \o Concat(SubSeq(history, sent.nwrites + 1, Len(history)))]_vars

\* C12: when OpenPrinterW succeeds and StartDocPrinterW fails,
\* StartPagePrinter, WritePrinter, EndPagePrinter and EndDocPrinter are not
\* called, ClosePrinter is called exactly once, and flush returns the
\* "Failed to start doc" error.
C12_StartDocFailure ==
    (Succeeded("OpenPrinterW") /\ Failed("StartDocPrinterW")) =>
        /\ Count("StartPagePrinter") = 0
        /\ Count("WritePrinter") = 0
        /\ Count("EndPagePrinter") = 0
        /\ Count("EndDocPrinter") = 0
        /\ FlushDone => Fns = <<"OpenPrinterW", "StartDocPrinterW", "ClosePrinter">>
        /\ FlushReturned => (~last.ok /\ last.err = ErrStartDoc)

C12_Witness ==
    /\ FlushReturned
    /\ Failed("StartDocPrinterW")
    /\ Count("ClosePrinter") = 1
    /\ Len(calls) = 3
    /\ last.err = ErrStartDoc

\* the warning printed when the release call fn fails
WarningOf(fn) ==
    CASE fn = "EndPagePrinter" -> WarnEndPage
      [] fn = "EndDocPrinter" -> WarnEndDoc
      [] fn = "ClosePrinter" -> WarnClose

\* C13: a failed EndPagePrinter is still followed by EndDocPrinter and
\* ClosePrinter, a failed EndDocPrinter by ClosePrinter; what a flush prints
\* is the line of its primary error, if any, and then one warning for each
\* failed cleanup call, in order.
C13_CleanupContinues ==
    LET FailedRelease(c) == c.fn \in Release /\ ~c.ok
        failed == SelectSeq(calls, FailedRelease)
        errorLine == IF FirstPrimaryError = NoError THEN <<>> ELSE <<FirstPrimaryError>>
    IN  /\ stderr = errorLine \o [i \in DOMAIN failed |-> WarningOf(failed[i].fn)]
        /\ FlushDone =>
            /\ Failed("EndPagePrinter") => (Count("EndDocPrinter") = 1 /\ Count("ClosePrinter") = 1)
            /\ Failed("EndDocPrinter") => Count("ClosePrinter") = 1

C13_Witness ==
    /\ FlushDone
    /\ Failed("EndPagePrinter")
    /\ Failed("EndDocPrinter")
    /\ Succeeded("ClosePrinter")
    /\ stderr = <<WarnEndPage, WarnEndDoc>>

\* C14: within one flush each of OpenPrinterW, StartDocPrinterW,
\* StartPagePrinter, WritePrinter is called at most once, each only after
\* the one before it succeeded, and the single WritePrinter call is handed
\* the whole buffer.
C14_StagesOnceInOrder ==
    /\ \A fn \in Primary : Count(fn) <= 1
    /\ Count("StartDocPrinterW") = 1 => Succeeded("OpenPrinterW")
    /\ Count("StartPagePrinter") = 1 => Succeeded("StartDocPrinterW")
    /\ Count("WritePrinter") = 1 => Succeeded("StartPagePrinter")
    /\ pc # "idle" =>
        \A i \in DOMAIN calls :
            calls[i].fn = "WritePrinter" =>
                (calls[i].data = buffer /\ CountEquals(calls[i].cb, len(buffer)))

\* C15: for every buffer length, the count requested from WritePrinter is the
\* buffer length, and a flush that returns success was reported a count equal
\* to the buffer length.
C15_CountIsBufferLength ==
    /\ pc # "idle" =>
        \A i \in DOMAIN calls :
            calls[i].fn = "WritePrinter" => CountEquals(calls[i].cb, len(buffer))
    /\ (FlushReturned /\ last.ok) =>
        \A i \in DOMAIN calls :
            calls[i].fn = "WritePrinter" => CountEquals(calls[i].written, len(buffer))

\* fn succeeded in the latest flush and its release has not been called
Held(fn) == Succeeded(fn) /\ Count(ReleaseOf(fn)) = 0

\* C16: whenever no flush is in progress nothing acquired is left
\* unreleased; every flush, also one that follows a failed flush, starts at
\* OpenPrinterW with no error, a null handle and the three flags false.
C16_NothingHeldBetweenFlushes ==
    /\ pc = "idle" => \A i \in DOMAIN Acquire : ~Held(Acquire[i])
    /\ pc = "S1" =>
        /\ calls = <<>>
        /\ error = NoError
        /\ printer_handle = HANDLE0
        /\ ~is_printer_open /\ ~is_doc_started /\ ~is_page_started
    /\ calls # <<>> => calls[1].fn = "OpenPrinterW"

C16_Witness ==
    /\ pc = "S1"
    /\ nflush = 2
    /\ last.op = "flush"
    /\ last.err = ErrWriteAll

\* the positions of write_all, in program order
Positions == <<"S1", "S2", "S3", "S4", "C1", "C2", "C3", "ret">>

Rank(l) == CHOOSE i \in DOMAIN Positions : Positions[i] = l

\* C17: a flush makes at most seven spooler calls, at most one of each, and
\* has released all it acquired when it returns; every step of it moves
\* strictly forward in the program, so it returns after at most eight steps.
C17_FlushTerminates ==
    /\ [](/\ Len(calls) <= 7
          /\ \A i \in DOMAIN AllSpoolerCalls : Count(AllSpoolerCalls[i]) <= 1
          /\ pc \in {"ret", "idle"} => \A i \in DOMAIN Acquire : ~Held(Acquire[i]))
    /\ [][pc # "idle" =>
            \/ pc = "ret" /\ pc' = "idle"
            \/ pc' # "idle" /\ Rank(pc') > Rank(pc)]_vars

C17_Witness ==
    /\ FlushReturned
    /\ Len(calls) = 7
    /\ nflush = 2

\* C18: no operation changes printer_name, and every OpenPrinterW call of
\* every flush is given that name.
C18_IdentityFixed ==
    /\ [](/\ printer_name \in Printers
          /\ \A i \in DOMAIN calls :
                calls[i].fn = "OpenPrinterW" => calls[i].name = printer_name)
    /\ [][printer_name' = printer_name]_vars

C18_Witness ==
    /\ nflush = 2
    /\ history # <<>>
    /\ last.op = "read"
    /\ calls # <<>>
    /\ calls[1].name = printer_name

\* C19: a flush of an empty buffer goes through the whole handshake: it
\* starts at OpenPrinterW, hands WritePrinter a request of 0 bytes once the
\* page is started, and returns success after all seven calls when the four
\* primary calls succeed and 0 bytes are reported written.
C19_EmptyFlushIsFullHandshake ==
    (buffer = <<>> /\ nflush > 0) =>
        /\ calls = <<>> => pc = "S1"
        /\ (Succeeded("StartPagePrinter") /\ pc # "S4") =>
            \E i \in DOMAIN calls :
                calls[i].fn = "WritePrinter" /\ calls[i].cb = 0 /\ calls[i].data = <<>>
        /\ (/\ FlushReturned
            /\ \E i \in DOMAIN calls :
                calls[i].fn = "WritePrinter" /\ calls[i].ok /\ calls[i].written = 0) =>
                (last.ok /\ Fns = AllSpoolerCalls)

C19_Witness ==
    /\ FlushReturned
    /\ buffer = <<>>
    /\ last.ok
    /\ Fns = AllSpoolerCalls
    /\ calls[4].cb = 0

====
